---- MODULE Spec2Model ----
(***************************************************************************)
(* A model of package alog (alog.go): the ordered metadata store Meta and  *)
(* the annotated logger Log built on it.                                   *)
(*                                                                         *)
(* Objects live in three heaps: logs (the *Log objects), metas (the *Meta  *)
(* objects) and maps (the map[string]MetaEntry objects).  A reference is   *)
(* an index into its heap and 0 is the nil reference, so that two objects  *)
(* holding the same reference share what it points to.                     *)
(*                                                                         *)
(* Every call is one action, taken when no call is in progress.  A call    *)
(* leaves its inputs in `call`, its return value in `ret` and, in          *)
(* `effects`, the things it did to the outside world in the order it did   *)
(* them: writes to an io.Writer, a panic, a process exit.  Return is the   *)
(* caller going on to its next statement.                                  *)
(*                                                                         *)
(* Where several threads call into one store, a call is not one action but *)
(* a walk through the method, statement by statement, from the lock to the *)
(* deferred unlock: thr holds where each thread is and its locals, mutex   *)
(* who holds the store's lock.                                             *)
(***************************************************************************)
EXTENDS Integers, Sequences, FiniteSets, TLC

VARIABLES
    logs,       \* heap of *Log
    metas,      \* heap of *Meta
    maps,       \* heap of map[string]MetaEntry
    ghost,      \* history of each *Meta: its keys in first-insertion order, whether a
                \* key was ever deleted, the store a caller copied it from, whether a
                \* caller holds it (and not a Log)
    call,       \* the call made last and its inputs
    ret,        \* what that call returned
    effects,    \* what that call did to the outside, in order
    cells,      \* heap of the ints that pointers stored as values point to
    mutex,      \* the sync.RWMutex of each *Meta
    thr         \* the threads that call into one store at the same time

vars == <<logs, metas, maps, ghost, call, ret, effects, cells, mutex, thr>>

---------------------------------------------------------------------------
(* Bounds *)

MaxArgs == 2            \* length of a variadic argument list

LogIds == {1, 2}        \* slots of the heap of *Log
MetaIds == {1, 2}       \* slots of the heap of *Meta
MapIds == {1, 2}        \* slots of the heap of maps
CellIds == {1, 2}       \* slots of the heap of ints

---------------------------------------------------------------------------
(* Values: an interface{} holding a string, an int, an error, a pointer to an *)
(* int (a reference into the heap of ints) or nothing                         *)

StrV(s) == [t |-> "string", s |-> s, n |-> 0]
IntV(n) == [t |-> "int", s |-> "", n |-> n]
ErrV(s) == [t |-> "error", s |-> s, n |-> 0]      \* errors.New(s)
PtrV(c) == [t |-> "ptr", s |-> "", n |-> c]       \* a *int
NilValue == [t |-> "nil", s |-> "", n |-> 0]

Keys == {"foo", "t"}
Values == {StrV("bar"), IntV(7)}

---------------------------------------------------------------------------
(* package fmt, on strings character by character *)

\* the operand's name for its type in fmt's %!verb(type=value)
TypeName(v) ==
    CASE v.t = "error" -> "*errors.errorString"
      [] v.t = "ptr" -> "*int"
      [] OTHER -> v.t

\* %v / %+v of an operand; an error prints its Error(), a *int its address
FmtV(v) ==
    CASE v.t = "string" -> v.s
      [] v.t = "error" -> v.s
      [] v.t = "int" -> ToString(v.n)
      [] v.t = "ptr" -> "0xc00001000" \o ToString(v.n)
      [] OTHER -> "<nil>"

\* the verb with letter c applied to one operand
FmtVerb(c, v) ==
    CASE c = "v" -> FmtV(v)
      [] c = "s" /\ v.t \in {"string", "error"} -> v.s
      [] c = "d" /\ v.t = "int" -> ToString(v.n)
      [] v.t = "nil" -> "%!" \o c \o "(<nil>)"
      [] OTHER -> "%!" \o c \o "(" \o TypeName(v) \o "=" \o FmtV(v) \o ")"

RECURSIVE FmtExtra(_)
FmtExtra(args) ==
    IF args = <<>> THEN ""
    ELSE (IF Head(args).t = "nil" THEN "<nil>"
          ELSE TypeName(Head(args)) \o "=" \o FmtV(Head(args)))
         \o (IF Tail(args) = <<>> THEN "" ELSE ", " \o FmtExtra(Tail(args)))

Char(s, i) == SubSeq(s, i, i)
From(s, i) == SubSeq(s, i, Len(s))

\* fmt.Sprintf(f, args...): literal text is copied, "%%" is a percent sign, a verb
\* (with an optional + flag) consumes the next operand
RECURSIVE FmtSprintf(_, _)
FmtSprintf(f, args) ==
    IF f = "" THEN
        IF args = <<>> THEN "" ELSE "%!(EXTRA " \o FmtExtra(args) \o ")"
    ELSE IF Char(f, 1) # "%" THEN Char(f, 1) \o FmtSprintf(From(f, 2), args)
    ELSE LET p == IF Len(f) >= 2 /\ Char(f, 2) = "+" THEN 3 ELSE 2   \* where the verb is
         IN  IF Len(f) < p THEN "%!(NOVERB)" \o FmtSprintf("", args)
             ELSE IF Char(f, p) = "%" THEN "%" \o FmtSprintf(From(f, p + 1), args)
             ELSE IF args = <<>>
                  THEN "%!" \o Char(f, p) \o "(MISSING)" \o FmtSprintf(From(f, p + 1), args)
             ELSE FmtVerb(Char(f, p), Head(args)) \o FmtSprintf(From(f, p + 1), Tail(args))

\* fmt.Sprint(args...): a space goes between two operands when neither is a string
RECURSIVE FmtSprint(_)
FmtSprint(args) ==
    IF args = <<>> THEN ""
    ELSE IF Tail(args) = <<>> THEN FmtV(Head(args))
    ELSE FmtV(Head(args))
         \o (IF Head(args).t # "string" /\ Head(Tail(args)).t # "string" THEN " " ELSE "")
         \o FmtSprint(Tail(args))

\* fmt.Sprintln(args...): a space between all operands, a newline at the end
RECURSIVE FmtSprintln(_)
FmtSprintln(args) ==
    IF args = <<>> THEN "\n"
    ELSE FmtV(Head(args)) \o (IF Tail(args) = <<>> THEN "" ELSE " ") \o FmtSprintln(Tail(args))

\* strings.Join(pts, delim)
RECURSIVE StringsJoin(_, _)
StringsJoin(pts, delim) ==
    IF pts = <<>> THEN ""
    ELSE IF Tail(pts) = <<>> THEN Head(pts)
    ELSE Head(pts) \o delim \o StringsJoin(Tail(pts), delim)

---------------------------------------------------------------------------
(* The heaps.  h is a record [logs, metas, maps, ghost]. *)

EmptyMap == [k \in {} |-> [value |-> NilValue, order |-> 0]]

NoMap == [live |-> FALSE, m |-> EmptyMap]
NoMeta == [live |-> FALSE, entries |-> 0]
NoLog == [live |-> FALSE, logger |-> [out |-> "", flags |-> 0], meta |-> 0, out |-> "",
          calldepth |-> 0]
NoGhost == [hist |-> <<>>, deleted |-> FALSE, from |-> 0, held |-> FALSE]
NoCell == [live |-> FALSE, n |-> 0]
\* a sync.RWMutex nobody holds: w is the thread that has called Lock and not yet
\* Unlock, r the threads that hold it shared
NoMutex == [w |-> 0, r |-> {}]

Free(heap, ids) == {i \in ids : ~heap[i].live}
Fresh(heap, ids) == CHOOSE i \in Free(heap, ids) : \A j \in Free(heap, ids) : i <= j

\* a fresh object for the object in slot i of another heap: slot i when it is free
\* (where the allocator puts an object is its own business)
FreshFor(heap, ids, i) == IF i \in Free(heap, ids) THEN i ELSE Fresh(heap, ids)

\* garbage collection: a *Meta nobody holds and a map no *Meta holds are gone
SweepMaps(h) ==
    [h EXCEPT !.maps = [i \in MapIds |->
        IF \E m \in MetaIds : h.metas[m].live /\ h.metas[m].entries = i
        THEN h.maps[i] ELSE NoMap]]
SweepMetas(h) ==
    SweepMaps([h EXCEPT
        !.metas = [m \in MetaIds |->
            IF h.ghost[m].held \/ \E l \in LogIds : h.logs[l].live /\ h.logs[l].meta = m
            THEN h.metas[m] ELSE NoMeta],
        !.ghost = [m \in MetaIds |->
            IF h.ghost[m].held \/ \E l \in LogIds : h.logs[l].live /\ h.logs[l].meta = m
            THEN h.ghost[m] ELSE NoGhost]])

\* the keys of a sequence without k
RECURSIVE Without(_, _)
Without(ks, k) ==
    IF ks = <<>> THEN <<>>
    ELSE IF Head(ks) = k THEN Without(Tail(ks), k)
    ELSE <<Head(ks)>> \o Without(Tail(ks), k)

InSeq(ks, k) == \E i \in 1..Len(ks) : ks[i] = k

\* the history kept beside set and del
GhostSet(g, k) == IF InSeq(g.hist, k) THEN g ELSE [g EXCEPT !.hist = Append(g.hist, k)]
GhostDel(g, k) ==
    IF InSeq(g.hist, k) THEN [g EXCEPT !.hist = Without(g.hist, k), !.deleted = TRUE] ELSE g

---------------------------------------------------------------------------
(* type Meta: the ordered metadata store *)

MetaEntry(v, o) == [value |-> v, order |-> o]

\* what m.entries holds; a nil map reads as an empty one
entries(h, m) ==
    IF h.metas[m].entries = 0 THEN EmptyMap ELSE h.maps[h.metas[m].entries].m

\* len(m.entries)
len(h, m) == Cardinality(DOMAIN entries(h, m))

\* m.get(k): the value of a missing key is the zero MetaEntry's, nil
get(h, m, k) == IF k \in DOMAIN entries(h, m) THEN entries(h, m)[k].value ELSE NilValue

\* set as it would be if it numbered every write, not only the first of a key
setRenumbers(h, m, k, v) ==
    LET mp == IF h.metas[m].entries = 0 THEN FreshFor(h.maps, MapIds, m)
              ELSE h.metas[m].entries
        old == entries(h, m)
        new == [x \in DOMAIN old \cup {k} |->
                   IF x # k THEN old[x] ELSE MetaEntry(v, len(h, m))]
    IN  [h EXCEPT !.metas[m].entries = mp,
                  !.maps[mp] = [live |-> TRUE, m |-> new],
                  !.ghost[m] = GhostSet(h.ghost[m], k)]

\* set as it would be if it numbered new keys from one
setOrderFromOne(h, m, k, v) ==
    LET mp == IF h.metas[m].entries = 0 THEN FreshFor(h.maps, MapIds, m)
              ELSE h.metas[m].entries
        old == entries(h, m)
        new == [x \in DOMAIN old \cup {k} |->
                   IF x # k THEN old[x]
                   ELSE IF k \in DOMAIN old THEN MetaEntry(v, old[k].order)
                   ELSE MetaEntry(v, len(h, m) + 1)]
    IN  [h EXCEPT !.metas[m].entries = mp,
                  !.maps[mp] = [live |-> TRUE, m |-> new],
                  !.ghost[m] = GhostSet(h.ghost[m], k)]

\* m.set(k, v): the map is made on the first call
set(h, m, k, v) ==
    LET mp == IF h.metas[m].entries = 0 THEN FreshFor(h.maps, MapIds, m)
              ELSE h.metas[m].entries
        old == entries(h, m)
        new == [x \in DOMAIN old \cup {k} |->
                   IF x # k THEN old[x]
                   ELSE IF k \in DOMAIN old THEN MetaEntry(v, old[k].order)
                   ELSE MetaEntry(v, len(h, m))]
    IN  [h EXCEPT !.metas[m].entries = mp,
                  !.maps[mp] = [live |-> TRUE, m |-> new],
                  !.ghost[m] = GhostSet(h.ghost[m], k)]

\* del as it would be if it closed the gap the deleted key leaves
delCompacts(h, m, k) ==
    IF h.metas[m].entries = 0 THEN h
    ELSE LET mp == h.metas[m].entries
             old == h.maps[mp].m
         IN  [h EXCEPT !.maps[mp].m =
                          [x \in DOMAIN old \ {k} |->
                              IF k \in DOMAIN old /\ old[x].order > old[k].order
                              THEN MetaEntry(old[x].value, old[x].order - 1)
                              ELSE old[x]],
                       !.ghost[m] = GhostDel(h.ghost[m], k)]

\* m.del(k): delete on a nil map, or of a missing key, does nothing
del(h, m, k) ==
    IF h.metas[m].entries = 0 THEN h
    ELSE LET mp == h.metas[m].entries
             old == h.maps[mp].m
         IN  [h EXCEPT !.maps[mp].m = [x \in DOMAIN old \ {k} |-> old[x]],
                       !.ghost[m] = GhostDel(h.ghost[m], k)]

\* the orders in which `for k, vi := range m.entries` may visit the keys
RangeOrders(S) ==
    {ks \in [1..Cardinality(S) -> S] : \A i, j \in 1..Cardinality(S) : ks[i] = ks[j] => i = j}

\* the loop of format, visiting the keys in the order ks; pts[vi.order] with
\* vi.order >= len(pts) is an index out of range
RECURSIVE place(_, _, _)
place(ents, ks, pts) ==
    IF ks = <<>> THEN [fault |-> FALSE, pts |-> pts]
    ELSE LET k == Head(ks)
             vi == ents[k]
         IN  IF vi.order >= Len(pts) THEN [fault |-> TRUE, pts |-> pts]
             ELSE place(ents, Tail(ks),
                        [pts EXCEPT ![vi.order + 1] =
                            FmtSprintf("%s=%+v", <<StrV(k), vi.value>>)])

Ok(s) == [fault |-> FALSE, s |-> s]
Fault == [fault |-> TRUE, s |-> ""]

\* format as it would be without the test for an empty store
formatNoEmptyCheck(h, m, delim, f) ==
    {LET p == place(entries(h, m), ks, [i \in 1..len(h, m) |-> ""])
         s == StringsJoin(p.pts, delim)
     IN  IF p.fault THEN Fault
         ELSE IF f = "" THEN Ok(s)
         ELSE Ok(FmtSprintf(f, <<StrV(s)>>))
     : ks \in RangeOrders(DOMAIN entries(h, m))}

\* format as it would be if it appended the entries as the map yields them
formatInMapOrder(h, m, delim, f) ==
    IF len(h, m) = 0 THEN {Ok("")}
    ELSE {LET pts == [i \in 1..len(h, m) |->
                        FmtSprintf("%s=%+v", <<StrV(ks[i]), entries(h, m)[ks[i]].value>>)]
              s == StringsJoin(pts, delim)
          IN  IF f = "" THEN Ok(s) ELSE Ok(FmtSprintf(f, <<StrV(s)>>))
          : ks \in RangeOrders(DOMAIN entries(h, m))}

\* m.format(delim, format): every outcome some iteration order gives
format(h, m, delim, f) ==
    IF len(h, m) = 0 THEN {Ok("")}
    ELSE {LET p == place(entries(h, m), ks, [i \in 1..len(h, m) |-> ""])
              s == StringsJoin(p.pts, delim)
          IN  IF p.fault THEN Fault
              ELSE IF f = "" THEN Ok(s)
              ELSE Ok(FmtSprintf(f, <<StrV(s)>>))
          : ks \in RangeOrders(DOMAIN entries(h, m))}

\* copy as it would be if the new Meta took the map of the old one
copyShares(h, m) ==
    LET n == Fresh(h.metas, MetaIds)
    IN  [h |-> [h EXCEPT !.metas[n] = [live |-> TRUE, entries |-> h.metas[m].entries],
                         !.ghost[n] = h.ghost[m]],
         r |-> n]

\* m.copy(): a new Meta; a new map with the same entries, or nil for nil
copy(h, m) ==
    LET n == Fresh(h.metas, MetaIds)
        mp == FreshFor(h.maps, MapIds, n)
    IN  IF h.metas[m].entries = 0
        THEN [h |-> [h EXCEPT !.metas[n] = [live |-> TRUE, entries |-> 0],
                              !.ghost[n] = h.ghost[m]],
              r |-> n]
        ELSE [h |-> [h EXCEPT !.metas[n] = [live |-> TRUE, entries |-> mp],
                              !.maps[mp] = [live |-> TRUE, m |-> entries(h, m)],
                              !.ghost[n] = h.ghost[m]],
              r |-> n]

---------------------------------------------------------------------------
(* package log: the standard Logger under a Log *)

defaultCalldepth == 3
LstdFlags == 3                      \* log.Ldate | log.Ltime, what log.Flags() gives
FlagSet == {0, LstdFlags}

\* log.New(out, "", flags)
LogNew(out, flags) == [out |-> out, flags |-> flags]

\* Logger used when *alog.Log is nil
fallback == LogNew("os.Stdout", LstdFlags)

\* the header a Logger puts before the text: nothing, or date and time
Header(flags) == IF flags = 0 THEN "" ELSE "2009/01/23 01:23:23 "

EndsNewline(s) == Len(s) > 0 /\ Char(s, Len(s)) = "\n"

EvWrite(w, s) == [e |-> "write", w |-> w, s |-> s]
EvPanic(v) == [e |-> "panic", w |-> "", s |-> v]
EvExit(code) == [e |-> "exit", w |-> "", s |-> ToString(code)]

\* (*log.Logger).Output(calldepth, s): one Write of header, text and, when the
\* text does not end in one, a newline (calldepth only picks the file:line of
\* flags that are not modelled)
LoggerOutput(lg, calldepth, s) ==
    <<EvWrite(lg.out, Header(lg.flags) \o s \o (IF EndsNewline(s) THEN "" ELSE "\n"))>>

---------------------------------------------------------------------------
(* type Log.  A receiver a is a reference: 0 is the nil *Log. *)

newAdvanced(h, out, flags, calldepth) ==
    LET l == Fresh(h.logs, LogIds)
        m == FreshFor(h.metas, MetaIds, l)
    IN  [h |-> [h EXCEPT !.logs[l] = [live |-> TRUE, logger |-> LogNew(out, flags),
                                      meta |-> m, out |-> out, calldepth |-> calldepth],
                         !.metas[m] = [live |-> TRUE, entries |-> 0],
                         !.ghost[m] = NoGhost],
         r |-> l]

New(h, out) == newAdvanced(h, out, LstdFlags, defaultCalldepth)

\* Copy as it would be if the new Log took the Meta of the old one
CopySharesMeta(h, a) ==
    IF a = 0 THEN [h |-> h, r |-> 0]
    ELSE LET l == Fresh(h.logs, LogIds)
         IN  [h |-> [h EXCEPT !.logs[l] =
                        [live |-> TRUE,
                         logger |-> LogNew(h.logs[a].out, h.logs[a].logger.flags),
                         meta |-> h.logs[a].meta, out |-> h.logs[a].out,
                         calldepth |-> defaultCalldepth]],
              r |-> l]

\* Copy as it would be if it took the default flags, as New does
CopyDefaultFlags(h, a) ==
    IF a = 0 THEN [h |-> h, r |-> 0]
    ELSE LET c == copy(h, h.logs[a].meta)
             l == Fresh(h.logs, LogIds)
         IN  [h |-> [c.h EXCEPT !.logs[l] =
                        [live |-> TRUE,
                         logger |-> LogNew(h.logs[a].out, LstdFlags),
                         meta |-> c.r, out |-> h.logs[a].out,
                         calldepth |-> defaultCalldepth]],
              r |-> l]

Copy(h, a) ==
    IF a = 0 THEN [h |-> h, r |-> 0]
    ELSE LET c == copy(h, h.logs[a].meta)
             l == Fresh(h.logs, LogIds)
         IN  [h |-> [c.h EXCEPT !.logs[l] =
                        [live |-> TRUE,
                         logger |-> LogNew(h.logs[a].out, h.logs[a].logger.flags),
                         meta |-> c.r, out |-> h.logs[a].out,
                         calldepth |-> defaultCalldepth]],
              r |-> l]

Set(h, a, k, v) ==
    IF a = 0 THEN [h |-> h, r |-> 0]
    ELSE [h |-> set(h, h.logs[a].meta, k, v), r |-> a]

\* SetError as it would be without the quotes
SetErrorBare(h, a, err) == Set(h, a, "error", StrV(FmtSprintf("%s", <<err>>)))

SetError(h, a, err) == Set(h, a, "error", StrV(FmtSprintf("'%s'", <<err>>)))

With(h, a, k, v) == LET c == Copy(h, a) IN Set(c.h, c.r, k, v)

WithError(h, a, err) == LET c == Copy(h, a) IN SetError(c.h, c.r, err)

\* prefix as it would be without the nil check: a nil dereference
prefixNoNilCheck(h, a) ==
    IF a = 0 THEN {Fault} ELSE format(h, h.logs[a].meta, " ", "[%s]")

prefix(h, a) ==
    IF a = 0 THEN {Ok("")} ELSE format(h, h.logs[a].meta, " ", "[%s]")

\* Prepends the prefix to the output string
addPrefix(h, a, s) ==
    {IF o.fault THEN Fault ELSE IF o.s # "" THEN Ok(o.s \o " " \o s) ELSE Ok(s)
     : o \in prefix(h, a)}

\* Returns the prefix as interface args for prepending in a Print() call
buildPrefixArgs(h, a) ==
    {[fault |-> o.fault,
      args |-> IF ~o.fault /\ o.s # "" THEN <<StrV(o.s), StrV(" ")>> ELSE <<>>]
     : o \in prefix(h, a)}

Sprint(h, a, v) ==
    {IF o.fault THEN Fault ELSE Ok(FmtSprint(o.args \o v)) : o \in buildPrefixArgs(h, a)}

Sprintf(h, a, f, v) ==
    {IF o.fault THEN Fault ELSE Ok(FmtSprintf(o.s, v)) : o \in addPrefix(h, a, f)}

Sprintln(h, a, v) ==
    {IF o.fault THEN Fault ELSE Ok(FmtSprintln(o.args \o v)) : o \in buildPrefixArgs(h, a)}

output(h, a, s) ==
    IF a = 0 THEN LoggerOutput(fallback, defaultCalldepth, s)
    ELSE LoggerOutput(h.logs[a].logger, h.logs[a].calldepth, s)

IndexOutOfRange == "runtime error: index out of range"

\* what a call that faulted while formatting does: the runtime panic, nothing else
Faulted == <<EvPanic(IndexOutOfRange)>>

\* each of these is the set of effect sequences the call may have
\* Log.Print as it would be if the prefix were handed to the Logger as its own
\* prefix, which the Logger puts before the header
LogPrintPrefixFirst(h, a, v) ==
    {IF o.fault THEN Faulted
     ELSE IF a = 0 THEN output(h, a, FmtSprint(v))
     ELSE <<EvWrite(h.logs[a].logger.out,
                    o.s \o " " \o Header(h.logs[a].logger.flags) \o FmtSprint(v)
                    \o (IF EndsNewline(FmtSprint(v)) THEN "" ELSE "\n"))>>
     : o \in prefix(h, a)}

\* Log.Print (the name Print is taken by module TLC)
LogPrint(h, a, v) == {IF o.fault THEN Faulted ELSE output(h, a, o.s) : o \in Sprint(h, a, v)}
Printf(h, a, f, v) ==
    {IF o.fault THEN Faulted ELSE output(h, a, o.s) : o \in Sprintf(h, a, f, v)}
Println(h, a, v) ==
    {IF o.fault THEN Faulted ELSE output(h, a, o.s) : o \in Sprintln(h, a, v)}

Fatal(h, a, v) ==
    {IF o.fault THEN Faulted ELSE output(h, a, o.s) \o <<EvExit(1)>> : o \in Sprint(h, a, v)}
Fatalf(h, a, f, v) ==
    {IF o.fault THEN Faulted ELSE output(h, a, o.s) \o <<EvExit(1)>>
     : o \in Sprintf(h, a, f, v)}
Fatalln(h, a, v) ==
    {IF o.fault THEN Faulted ELSE output(h, a, o.s) \o <<EvExit(1)>>
     : o \in Sprintln(h, a, v)}

\* Panic as it would be if it raised the string it logged
PanicDecorated(h, a, v) ==
    {IF o.fault THEN Faulted ELSE output(h, a, o.s) \o <<EvPanic(o.s)>>
     : o \in Sprint(h, a, v)}

Panic(h, a, v) ==
    {IF o.fault THEN Faulted ELSE output(h, a, o.s) \o <<EvPanic(FmtSprint(v))>>
     : o \in Sprint(h, a, v)}
Panicf(h, a, f, v) ==
    {IF o.fault THEN Faulted ELSE output(h, a, o.s) \o <<EvPanic(FmtSprintf(f, v))>>
     : o \in Sprintf(h, a, f, v)}
Panicln(h, a, v) ==
    {IF o.fault THEN Faulted ELSE output(h, a, o.s) \o <<EvPanic(FmtSprintln(v))>>
     : o \in Sprintln(h, a, v)}

---------------------------------------------------------------------------
(* State and calls *)

H == [logs |-> logs, metas |-> metas, maps |-> maps, ghost |-> ghost]
H1 == [logs |-> logs', metas |-> metas', maps |-> maps', ghost |-> ghost']

NoCall == [op |-> "", recv |-> 0, key |-> "", val |-> NilValue, delim |-> "", f |-> "",
           args |-> <<>>]
NoRet == [s |-> "", ref |-> 0, val |-> NilValue]

Threads == {1, 2}

\* a thread that is in no call and has made n calls; in a call, pc is where it
\* is, op, k and v are the call and its inputs (v is also what get returns), and
\* ord, todo, pts, ents, isnil, s and fault are the locals of the method
NoThread(n) ==
    [pc |-> "idle", op |-> "", k |-> "", v |-> NilValue, ord |-> 0, todo |-> {},
     pts |-> <<>>, ents |-> EmptyMap, isnil |-> TRUE, s |-> "", fault |-> FALSE,
     calls |-> n]

Init ==
    /\ logs = [i \in LogIds |-> NoLog]
    /\ metas = [i \in MetaIds |-> NoMeta]
    /\ maps = [i \in MapIds |-> NoMap]
    /\ ghost = [i \in MetaIds |-> NoGhost]
    /\ call = NoCall
    /\ ret = NoRet
    /\ effects = <<>>
    /\ cells = [c \in CellIds |-> NoCell]
    /\ mutex = [i \in MetaIds |-> NoMutex]
    /\ thr = [t \in Threads |-> NoThread(0)]

\* no call is in progress
Idle == call = NoCall

\* the call c, made by the one caller there is and so run from its Lock to its
\* Unlock without another call between, changes the heap to h, returns r and has
\* the effects e
Do(c, h, r, e) ==
    /\ call' = c
    /\ logs' = h.logs
    /\ metas' = h.metas
    /\ maps' = h.maps
    /\ ghost' = h.ghost
    /\ ret' = r
    /\ effects' = e
    /\ UNCHANGED <<cells, mutex, thr>>

\* os.Exit ends the process
Exited == effects # <<>> /\ effects[Len(effects)].e = "exit"

\* the caller goes on (past a return, or a recovered panic)
Return ==
    /\ ~Idle
    /\ ~Exited
    /\ call' = NoCall
    /\ ret' = NoRet
    /\ effects' = <<>>
    /\ UNCHANGED <<logs, metas, maps, ghost, cells, mutex, thr>>

RetLog(l) == [NoRet EXCEPT !.ref = l]
RetStr(s) == [NoRet EXCEPT !.s = s]

\* a call that changes the heap and returns a *Log: x is [h, r]
Changes(c, x) == \E y \in {x} : Do(c, y.h, RetLog(y.r), <<>>)

---------------------------------------------------------------------------
(* Calls on a store a caller holds, as TestMeta makes them *)

Held(m) == metas[m].live /\ ghost[m].held

\* the (delim, format) pairs format is called with
FormatArgs == {<<" ", "[%s]">>, <<", ", "*%s*">>, <<", ", "">>}

\* m := &Meta{}
MetaNew ==
    /\ Idle
    /\ Free(metas, MetaIds) # {}
    /\ Do([NoCall EXCEPT !.op = "new"],
          [H EXCEPT !.metas[Fresh(metas, MetaIds)] = [live |-> TRUE, entries |-> 0],
                    !.ghost[Fresh(metas, MetaIds)] = [NoGhost EXCEPT !.held = TRUE]],
          [NoRet EXCEPT !.ref = Fresh(metas, MetaIds)], <<>>)

MetaGet(m, k) ==
    /\ Idle
    /\ Held(m)
    /\ Do([NoCall EXCEPT !.op = "get", !.recv = m, !.key = k], H,
          [NoRet EXCEPT !.val = get(H, m, k)], <<>>)

MetaSet(m, k, v) ==
    /\ Idle
    /\ Held(m)
    /\ Do([NoCall EXCEPT !.op = "set", !.recv = m, !.key = k, !.val = v],
          set(H, m, k, v), NoRet, <<>>)

MetaDel(m, k) ==
    /\ Idle
    /\ Held(m)
    /\ Do([NoCall EXCEPT !.op = "del", !.recv = m, !.key = k], del(H, m, k), NoRet, <<>>)

MetaFormat(m, delim, f) ==
    /\ Idle
    /\ Held(m)
    /\ \E o \in format(H, m, delim, f) :
          Do([NoCall EXCEPT !.op = "format", !.recv = m, !.delim = delim, !.f = f], H,
             [NoRet EXCEPT !.s = o.s], IF o.fault THEN Faulted ELSE <<>>)

MetaCopy(m) ==
    /\ Idle
    /\ Held(m)
    /\ Free(metas, MetaIds) # {}
    /\ \E x \in {copy(H, m)} :
          Changes([NoCall EXCEPT !.op = "copy", !.recv = m],
                  [x EXCEPT !.h.ghost[x.r].from = m])

\* the caller lets go of a store
MetaDrop(m) ==
    /\ Idle
    /\ Held(m)
    /\ Do([NoCall EXCEPT !.op = "drop", !.recv = m],
          SweepMaps([H EXCEPT !.metas[m] = NoMeta,
                              !.ghost = [n \in MetaIds |->
                                  IF n = m THEN NoGhost
                                  ELSE IF ghost[n].from = m THEN [ghost[n] EXCEPT !.from = 0]
                                  ELSE ghost[n]]]),
          NoRet, <<>>)

MetaNext ==
    \/ MetaNew
    \/ \E m \in MetaIds, k \in Keys : MetaGet(m, k)
    \/ \E m \in MetaIds, k \in Keys, v \in Values : MetaSet(m, k, v)
    \/ \E m \in MetaIds, k \in Keys : MetaDel(m, k)
    \/ \E m \in MetaIds, x \in FormatArgs : MetaFormat(m, x[1], x[2])
    \/ \E m \in MetaIds : MetaCopy(m)
    \/ \E m \in MetaIds : MetaDrop(m)
    \/ Return

MetaSpec == Init /\ [][MetaNext]_vars

---------------------------------------------------------------------------
(* Calls on a logger, through the exported methods *)

Writers == {"w"}
LogKeys == {"foo"}
Errs == {ErrV("bad"), ErrV("good")}
ArgVals == {StrV("test"), IntV(7)}
\* operand lists: all short ones, and a message that ends in a newline
ArgLists == UNION {[1..n -> ArgVals] : n \in 0..MaxArgs} \cup {<<StrV("done\n")>>}
\* the (format, operands) pairs the ...f methods are called with
FmtCalls ==
    {x \in {<<"test", <<>> >>, <<"%s %d", <<StrV("test"), IntV(7)>> >>} : Len(x[2]) <= MaxArgs}

\* a receiver: the nil *Log or a live one
Receivers == {0} \cup {l \in LogIds : logs[l].live}

\* a new *Log and its *Meta fit in the heaps
Room == Free(logs, LogIds) # {} /\ Free(metas, MetaIds) # {}

C(op, a) == [NoCall EXCEPT !.op = op, !.recv = a]

CallNew(out) ==
    /\ Idle
    /\ Room
    /\ Changes([NoCall EXCEPT !.op = "New", !.key = out], New(H, out))

\* log.SetFlags(flags), the embedded Logger's method
CallSetFlags(a, flags) ==
    /\ Idle
    /\ a # 0
    /\ Do([C("SetFlags", a) EXCEPT !.val = IntV(flags)],
          [H EXCEPT !.logs[a].logger.flags = flags], NoRet, <<>>)

\* the caller lets go of a logger
CallDrop(a) ==
    /\ Idle
    /\ a # 0
    /\ Do(C("Drop", a), SweepMetas([H EXCEPT !.logs[a] = NoLog]), NoRet, <<>>)

CallCopy(a) ==
    /\ Idle
    /\ a = 0 \/ Room
    /\ Changes(C("Copy", a), Copy(H, a))

CallSet(a, k, v) ==
    /\ Idle
    /\ Changes([C("Set", a) EXCEPT !.key = k, !.val = v], Set(H, a, k, v))

CallSetError(a, err) ==
    /\ Idle
    /\ Changes([C("SetError", a) EXCEPT !.val = err], SetError(H, a, err))

CallWith(a, k, v) ==
    /\ Idle
    /\ a = 0 \/ Room
    /\ Changes([C("With", a) EXCEPT !.key = k, !.val = v], With(H, a, k, v))

CallWithError(a, err) ==
    /\ Idle
    /\ a = 0 \/ Room
    /\ Changes([C("WithError", a) EXCEPT !.val = err], WithError(H, a, err))

\* a call that returns a string, or faults
Returns(c, outs) ==
    /\ Idle
    /\ \E o \in outs : Do(c, H, RetStr(o.s), IF o.fault THEN Faulted ELSE <<>>)

\* a call that returns nothing and has effects
Effects(c, effs) ==
    /\ Idle
    /\ \E e \in effs : Do(c, H, NoRet, e)

CallSprint(a, v) == Returns([C("Sprint", a) EXCEPT !.args = v], Sprint(H, a, v))
CallSprintf(a, f, v) ==
    Returns([C("Sprintf", a) EXCEPT !.f = f, !.args = v], Sprintf(H, a, f, v))
CallSprintln(a, v) == Returns([C("Sprintln", a) EXCEPT !.args = v], Sprintln(H, a, v))

CallPrint(a, v) == Effects([C("Print", a) EXCEPT !.args = v], LogPrint(H, a, v))
CallPrintf(a, f, v) ==
    Effects([C("Printf", a) EXCEPT !.f = f, !.args = v], Printf(H, a, f, v))
CallPrintln(a, v) == Effects([C("Println", a) EXCEPT !.args = v], Println(H, a, v))

CallPanic(a, v) == Effects([C("Panic", a) EXCEPT !.args = v], Panic(H, a, v))
CallPanicf(a, f, v) ==
    Effects([C("Panicf", a) EXCEPT !.f = f, !.args = v], Panicf(H, a, f, v))
CallPanicln(a, v) == Effects([C("Panicln", a) EXCEPT !.args = v], Panicln(H, a, v))

CallFatal(a, v) == Effects([C("Fatal", a) EXCEPT !.args = v], Fatal(H, a, v))
CallFatalf(a, f, v) ==
    Effects([C("Fatalf", a) EXCEPT !.f = f, !.args = v], Fatalf(H, a, f, v))
CallFatalln(a, v) == Effects([C("Fatalln", a) EXCEPT !.args = v], Fatalln(H, a, v))

Next ==
    \/ \E out \in Writers : CallNew(out)
    \/ \E a \in Receivers, flags \in FlagSet : CallSetFlags(a, flags)
    \/ \E a \in Receivers : CallDrop(a)
    \/ \E a \in Receivers : CallCopy(a)
    \/ \E a \in Receivers, k \in LogKeys, v \in Values : CallSet(a, k, v)
    \/ \E a \in Receivers, err \in Errs : CallSetError(a, err)
    \/ \E a \in Receivers, k \in LogKeys, v \in Values : CallWith(a, k, v)
    \/ \E a \in Receivers, err \in Errs : CallWithError(a, err)
    \/ \E a \in Receivers, v \in ArgLists : CallSprint(a, v)
    \/ \E a \in Receivers, x \in FmtCalls : CallSprintf(a, x[1], x[2])
    \/ \E a \in Receivers, v \in ArgLists : CallSprintln(a, v)
    \/ \E a \in Receivers, v \in ArgLists : CallPrint(a, v)
    \/ \E a \in Receivers, x \in FmtCalls : CallPrintf(a, x[1], x[2])
    \/ \E a \in Receivers, v \in ArgLists : CallPrintln(a, v)
    \/ \E a \in Receivers, v \in ArgLists : CallPanic(a, v)
    \/ \E a \in Receivers, x \in FmtCalls : CallPanicf(a, x[1], x[2])
    \/ \E a \in Receivers, v \in ArgLists : CallPanicln(a, v)
    \/ \E a \in Receivers, v \in ArgLists : CallFatal(a, v)
    \/ \E a \in Receivers, x \in FmtCalls : CallFatalf(a, x[1], x[2])
    \/ \E a \in Receivers, v \in ArgLists : CallFatalln(a, v)
    \/ Return

Spec == Init /\ [][Next]_vars

---------------------------------------------------------------------------
(* What the histories say a store holds and prints *)

Range(ks) == {ks[i] : i \in 1..Len(ks)}

\* a live store nothing was ever deleted from
SetOnly(m) == metas[m].live /\ ~ghost[m].deleted

\* "key=value" of the keys ks, in that order, with delim between
RECURSIVE Rendered(_, _, _)
Rendered(ents, ks, delim) ==
    IF ks = <<>> THEN ""
    ELSE Head(ks) \o "=" \o FmtV(ents[Head(ks)].value)
         \o (IF Tail(ks) = <<>> THEN "" ELSE delim \o Rendered(ents, Tail(ks), delim))

\* a wrapper with its placeholder filled in
Wrapped(f, s) ==
    CASE f = "" -> s
      [] f = "[%s]" -> "[" \o s \o "]"
      [] f = "*%s*" -> "*" \o s \o "*"

---------------------------------------------------------------------------
(* Claims about the store, under MetaSpec *)

\* C1: in a store that has only seen set calls, the i-th distinct key inserted has
\* order i-1; and a set on a key the store already has replaces that key's value
\* and changes nothing else: not the key's order, not any other entry.
C1_Post ==
    \A m \in MetaIds :
        (metas'[m].live /\ ~ghost'[m].deleted) =>
            /\ DOMAIN entries(H1, m) = Range(ghost'[m].hist)
            /\ \A i \in 1..Len(ghost'[m].hist) :
                  entries(H1, m)[ghost'[m].hist[i]].order = i - 1
C1_Reset ==
    \A m \in MetaIds :
        (call'.op = "set" /\ call'.recv = m /\ call'.key \in DOMAIN entries(H, m)) =>
            /\ DOMAIN entries(H1, m) = DOMAIN entries(H, m)
            /\ \A k \in DOMAIN entries(H, m) :
                  /\ entries(H1, m)[k].order = entries(H, m)[k].order
                  /\ entries(H1, m)[k].value =
                        IF k = call'.key THEN call'.val ELSE entries(H, m)[k].value
C1_SetOrder == [][C1_Post /\ C1_Reset]_vars

\* a set on the key inserted first, in a store of two keys: an overwrite
C1_Witness ==
    \E m \in MetaIds :
        /\ SetOnly(m) /\ call.op = "set" /\ call.recv = m
        /\ Len(ghost[m].hist) = 2 /\ call.key = ghost[m].hist[1]
        /\ ghost[m].hist = <<"t", "foo">>

\* C2: a set or del on one store leaves what get and format give on every other
\* store as it was, and so does the copy itself: once n = m.copy() is made, no
\* call on n shows through m and no call on m shows through n.
C2_Others(m) ==
    \A n \in MetaIds \ {m} :
        (metas[n].live /\ metas'[n].live) =>
            /\ \A k \in Keys : get(H1, n, k) = get(H, n, k)
            /\ \A x \in FormatArgs : format(H1, n, x[1], x[2]) = format(H, n, x[1], x[2])
C2_Step ==
    /\ call'.op \in {"set", "del"} => C2_Others(call'.recv)
    /\ call'.op = "copy" =>
          /\ C2_Others(ret'.ref)
          /\ ret'.ref # call'.recv
          /\ \A k \in Keys : get(H1, ret'.ref, k) = get(H, call'.recv, k)
C2_CopyIsolated == [][C2_Step]_vars

\* a store and its copy, the last call a del on the copy of a key the original
\* still has, after a set on the copy that the original does not show
C2_Witness ==
    \E m, n \in MetaIds :
        /\ metas[m].live /\ metas[n].live /\ ghost[n].from = m
        /\ call.op = "del" /\ call.recv = n
        /\ get(H, m, call.key) # NilValue
        /\ get(H, m, "t") # get(H, n, "t") /\ get(H, n, "t") # NilValue

\* C6: format of a non-empty store that has only seen set calls returns "key=value"
\* of every entry once, in first-insertion order whatever order the map is walked
\* in, joined by delim and put into the wrapper, or bare when the wrapper is empty.
C6_Expected(m, delim, f) ==
    Wrapped(f, Rendered(entries(H, m), ghost[m].hist, delim))
C6_Format ==
    /\ \A m \in MetaIds, x \in FormatArgs :
          (SetOnly(m) /\ len(H, m) > 0) =>
              format(H, m, x[1], x[2]) = {Ok(C6_Expected(m, x[1], x[2]))}
    /\ (call.op = "format" /\ SetOnly(call.recv) /\ len(H, call.recv) > 0) =>
          /\ ret.s = C6_Expected(call.recv, call.delim, call.f)
          /\ effects = <<>>

\* "*t=7, foo=bar*": the key inserted first is not the first in key order
C6_Witness ==
    /\ call.op = "format" /\ SetOnly(call.recv)
    /\ ghost[call.recv].hist = <<"t", "foo">>
    /\ call.f = "*%s*"
    /\ ret.s = "*t=7, foo=bar*"

---------------------------------------------------------------------------
(* Claims about the logger, under Spec *)

Live(l) == l # 0 /\ logs[l].live

\* the prefix the history of a's store says a has: "[k1=v1 k2=v2]"
SpecPrefix(h, a, hist) ==
    "[" \o Rendered(entries(h, h.logs[a].meta), hist, " ") \o "]"

\* what a Logger makes of a text: the text, and a newline if it does not end in one
Line(s) == s \o (IF EndsNewline(s) THEN "" ELSE "\n")

StartsWith(s, p) == Len(s) >= Len(p) /\ SubSeq(s, 1, Len(p)) = p
EndsWith(s, p) == Len(s) >= Len(p) /\ SubSeq(s, Len(s) - Len(p) + 1, Len(s)) = p

\* the plain formatting of the operands of the call c
Plain(c) ==
    CASE c.op \in {"Sprint", "Print", "Panic", "Fatal"} -> FmtSprint(c.args)
      [] c.op \in {"Sprintf", "Printf", "Panicf", "Fatalf"} -> FmtSprintf(c.f, c.args)
      [] c.op \in {"Sprintln", "Println", "Panicln", "Fatalln"} -> FmtSprintln(c.args)

\* C3: With, WithError and Copy leave the parent as it was; a Set, SetError, With
\* or WithError on one logger never changes the metadata or the prefix of another;
\* and no two live loggers hold the same Meta or the same map.
C3_NoSharing ==
    \A l1, l2 \in LogIds :
        (l1 # l2 /\ logs[l1].live /\ logs[l2].live) =>
            /\ logs[l1].meta # logs[l2].meta
            /\ \/ metas[logs[l1].meta].entries = 0
               \/ metas[logs[l1].meta].entries # metas[logs[l2].meta].entries
C3_Step ==
    /\ C3_NoSharing'
    /\ (call'.op \in {"With", "WithError", "Copy"} /\ call'.recv # 0) =>
          /\ logs'[call'.recv] = logs[call'.recv]
          /\ entries(H1, logs[call'.recv].meta) = entries(H, logs[call'.recv].meta)
          /\ prefix(H1, call'.recv) = prefix(H, call'.recv)
    /\ call'.op \in {"Set", "SetError", "With", "WithError"} =>
          \A l \in LogIds \ {call'.recv} :
              (logs[l].live /\ logs'[l].live) =>
                  /\ logs'[l] = logs[l]
                  /\ entries(H1, logs[l].meta) = entries(H, logs[l].meta)
                  /\ prefix(H1, l) = prefix(H, l)
C3_WithIsolated == [][C3_Step]_vars

\* a Set on one of two loggers that have the same keys: now their prefixes differ
C3_Witness ==
    /\ \A l \in LogIds : logs[l].live
    /\ call.op = "Set" /\ call.recv = 2
    /\ ghost[logs[1].meta].hist = <<"error", "foo">>
    /\ ghost[logs[2].meta].hist = <<"error", "foo">>
    /\ prefix(H, 1) # prefix(H, 2)

\* C4: on the nil *Log every method runs without a fault and changes nothing;
\* Copy, Set, SetError, With and WithError return nil; Sprint, Sprintf and Sprintln
\* return the plain formatting of their operands; Print, Printf and Println write
\* that, and nothing else, once to the fallback Logger; Panic* write it there and
\* then panic with it; Fatal* write it there and then exit.
C4_FallbackWrite(c) == EvWrite("os.Stdout", Header(LstdFlags) \o Line(Plain(c)))
C4_Step ==
    (call'.recv = 0 /\ call'.op # "New") =>
        /\ H1 = H
        /\ call'.op \in {"Copy", "Set", "SetError", "With", "WithError"} =>
              ret' = RetLog(0) /\ effects' = <<>>
        /\ call'.op \in {"Sprint", "Sprintf", "Sprintln"} =>
              ret' = RetStr(Plain(call')) /\ effects' = <<>>
        /\ call'.op \in {"Print", "Printf", "Println"} =>
              ret' = NoRet /\ effects' = <<C4_FallbackWrite(call')>>
        /\ call'.op \in {"Panic", "Panicf", "Panicln"} =>
              ret' = NoRet /\ effects' = <<C4_FallbackWrite(call'), EvPanic(Plain(call'))>>
        /\ call'.op \in {"Fatal", "Fatalf", "Fatalln"} =>
              ret' = NoRet /\ effects' = <<C4_FallbackWrite(call'), EvExit(1)>>
C4_NilSafe == [][C4_Step]_vars

\* Sprint("test", 7) on nil while a logger with metadata exists
C4_Witness ==
    /\ call.op = "Sprint" /\ call.recv = 0
    /\ call.args = <<StrV("test"), IntV(7)>>
    /\ ret.s = "test7"
    /\ \E l \in LogIds : logs[l].live /\ len(H, logs[l].meta) = 2

\* C5: Copy on a live logger returns another logger, with the parent's writer and
\* flags and with a Meta of its own that has the parent's keys, values and orders,
\* so that it prints the parent's prefix; the parent is as it was.  With(k, v) on
\* a key the parent has gives the child v under k at the order k had.
C5_CopyOf(a, c) ==
    /\ c # 0 /\ c # a /\ ~logs[c].live /\ logs'[c].live
    /\ logs'[c].out = logs[a].out
    /\ logs'[c].logger.out = logs[a].logger.out
    /\ logs'[c].logger.flags = logs[a].logger.flags
    /\ logs'[c].meta # logs[a].meta
    /\ logs'[a] = logs[a]
    /\ entries(H1, logs[a].meta) = entries(H, logs[a].meta)
C5_Step ==
    /\ (call'.op = "Copy" /\ call'.recv # 0) =>
          /\ C5_CopyOf(call'.recv, ret'.ref)
          /\ entries(H1, logs'[ret'.ref].meta) = entries(H, logs[call'.recv].meta)
          /\ prefix(H1, ret'.ref) = prefix(H, call'.recv)
    /\ (call'.op = "With" /\ call'.recv # 0) =>
          /\ C5_CopyOf(call'.recv, ret'.ref)
          /\ LET old == entries(H, logs[call'.recv].meta)
                 new == entries(H1, logs'[ret'.ref].meta)
             IN  /\ DOMAIN new = DOMAIN old \cup {call'.key}
                 /\ new[call'.key].value = call'.val
                 /\ \A k \in DOMAIN old :
                       /\ new[k].order = old[k].order
                       /\ k # call'.key => new[k].value = old[k].value
C5_Copy == [][C5_Step]_vars

\* With("foo", v) on a logger without a header whose first key is foo, with
\* another value
C5_Witness ==
    /\ call.op = "With" /\ Live(call.recv) /\ Live(ret.ref)
    /\ logs[call.recv].logger.flags = 0
    /\ ghost[logs[call.recv].meta].hist = <<"foo", "error">>
    /\ get(H, logs[call.recv].meta, "foo") # call.val
    /\ ghost[logs[ret.ref].meta].hist = <<"foo", "error">>

\* C8: Panic, Panicf and Panicln on a logger with metadata write one line to the
\* logger's writer, the header, the prefix, a space and, at its end, the plain
\* text; then they panic, and the panic carries the plain text, not what was
\* written.
C8_Panic ==
    (call.op \in {"Panic", "Panicf", "Panicln"} /\ Live(call.recv)
        /\ len(H, logs[call.recv].meta) > 0) =>
        LET a == call.recv
            pre == SpecPrefix(H, a, ghost[logs[a].meta].hist)
        IN  /\ Len(effects) = 2
            /\ effects[1].e = "write"
            /\ effects[1].w = logs[a].out
            /\ StartsWith(effects[1].s, Header(logs[a].logger.flags) \o pre \o " ")
            /\ EndsWith(effects[1].s, Line(Plain(call)))
            /\ effects[2] = EvPanic(Plain(call))
            /\ ~StartsWith(effects[2].s, "[")

\* Panic("test") on a logger with two keys
C8_Witness ==
    /\ call.op = "Panic" /\ Live(call.recv)
    /\ ghost[logs[call.recv].meta].hist = <<"foo", "error">>
    /\ call.args = <<StrV("test")>>
    /\ effects = <<EvWrite("w", Header(LstdFlags) \o "[foo=bar error='bad'] test\n"),
                   EvPanic("test")>>

\* C9, as claimed: Print on a logger with metadata writes one line to the logger's
\* writer: the header, the prefix in insertion order, one space, the message and
\* always a newline.
C9_AsClaimed ==
    (call.op = "Print" /\ Live(call.recv) /\ len(H, logs[call.recv].meta) > 0) =>
        LET a == call.recv
        IN  effects = <<EvWrite(logs[a].out,
                            Header(logs[a].logger.flags)
                            \o SpecPrefix(H, a, ghost[logs[a].meta].hist)
                            \o " " \o FmtSprint(call.args) \o "\n")>>

\* C9, amended: the same, with the newline added only when the message does not
\* end in one already.
C9_Print ==
    (call.op = "Print" /\ Live(call.recv) /\ len(H, logs[call.recv].meta) > 0) =>
        LET a == call.recv
        IN  effects = <<EvWrite(logs[a].out,
                            Header(logs[a].logger.flags)
                            \o SpecPrefix(H, a, ghost[logs[a].meta].hist)
                            \o " " \o Line(FmtSprint(call.args)))>>

\* Print("test") with a header, on a logger whose keys were set error first
C9_Witness ==
    /\ call.op = "Print" /\ Live(call.recv)
    /\ logs[call.recv].logger.flags = LstdFlags
    /\ ghost[logs[call.recv].meta].hist = <<"error", "foo">>
    /\ call.args = <<StrV("test")>>
    /\ effects = <<EvWrite("w", "2009/01/23 01:23:23 [error='bad' foo=7] test\n")>>

\* C10: SetError(err) on a live logger does what Set("error", "'<message>'") does
\* and returns the logger: the error entry is new and ordered after every other
\* entry, or it keeps its order and takes the new value; no other entry changes;
\* and the prefix shows it so.  WithError does the same to the child it returns.
C10_Quoted(err) == StrV("'" \o err.s \o "'")
C10_Entry(old, new, q) ==
    /\ DOMAIN new = DOMAIN old \cup {"error"}
    /\ new["error"].value = q
    /\ \A k \in DOMAIN old \ {"error"} : new[k] = old[k]
    /\ "error" \in DOMAIN old => new["error"].order = old["error"].order
    /\ "error" \notin DOMAIN old => \A k \in DOMAIN old : new["error"].order > old[k].order
C10_Hist(hist) == IF InSeq(hist, "error") THEN hist ELSE Append(hist, "error")
C10_Step ==
    /\ (call'.op = "SetError" /\ call'.recv # 0) =>
          LET a == call'.recv
          IN  /\ H1 = Set(H, a, "error", C10_Quoted(call'.val)).h
              /\ ret' = RetLog(a)
              /\ C10_Entry(entries(H, logs[a].meta), entries(H1, logs[a].meta),
                           C10_Quoted(call'.val))
              /\ prefix(H1, a) =
                    {Ok(SpecPrefix(H1, a, C10_Hist(ghost[logs[a].meta].hist)))}
    /\ (call'.op = "WithError" /\ call'.recv # 0) =>
          LET a == call'.recv
              c == ret'.ref
          IN  /\ c # 0 /\ c # a
              /\ C10_Entry(entries(H, logs[a].meta), entries(H1, logs'[c].meta),
                           C10_Quoted(call'.val))
              /\ prefix(H1, c) =
                    {Ok(SpecPrefix(H1, c, C10_Hist(ghost[logs[a].meta].hist)))}
C10_SetError == [][C10_Step]_vars

\* a second SetError on a logger whose error key came before foo
C10_Witness ==
    /\ call.op = "SetError" /\ Live(call.recv)
    /\ call.val = ErrV("good")
    /\ ghost[logs[call.recv].meta].hist = <<"error", "foo">>
    /\ prefix(H, call.recv) = {Ok("[error='good' foo=bar]")}

---------------------------------------------------------------------------
(* A caller that holds stores and loggers side by side, and makes the calls  *)
(* that show an empty store: set, del and format on the stores; New, Set,   *)
(* SetFlags, Sprint* and Print* on the loggers.                             *)

EmptyNext ==
    \/ MetaNew
    \/ \E m \in MetaIds, k \in Keys, v \in Values : MetaSet(m, k, v)
    \/ \E m \in MetaIds, k \in Keys : MetaDel(m, k)
    \/ \E m \in MetaIds, x \in FormatArgs : MetaFormat(m, x[1], x[2])
    \/ \E m \in MetaIds : MetaDrop(m)
    \/ \E out \in Writers : CallNew(out)
    \/ \E a \in Receivers, flags \in FlagSet : CallSetFlags(a, flags)
    \/ \E a \in Receivers : CallDrop(a)
    \/ \E a \in Receivers, k \in LogKeys, v \in Values : CallSet(a, k, v)
    \/ \E a \in Receivers, v \in ArgLists : CallSprint(a, v)
    \/ \E a \in Receivers, x \in FmtCalls : CallSprintf(a, x[1], x[2])
    \/ \E a \in Receivers, v \in ArgLists : CallSprintln(a, v)
    \/ \E a \in Receivers, v \in ArgLists : CallPrint(a, v)
    \/ \E a \in Receivers, x \in FmtCalls : CallPrintf(a, x[1], x[2])
    \/ \E a \in Receivers, v \in ArgLists : CallPrintln(a, v)
    \/ Return

EmptySpec == Init /\ [][EmptyNext]_vars


\* C7: format of a store without entries, one never set or one emptied by del, is
\* the empty string for every delimiter and wrapper; and Sprint, Sprintf and
\* Sprintln on a logger without metadata return the plain text, and Print, Printf
\* and Println write header and plain text, with no brackets and no space before.
C7_Empty ==
    /\ \A m \in MetaIds, x \in FormatArgs :
          (metas[m].live /\ len(H, m) = 0) => format(H, m, x[1], x[2]) = {Ok("")}
    /\ (call.op = "format" /\ len(H, call.recv) = 0) => ret.s = "" /\ effects = <<>>
    /\ (call.op \in {"Sprint", "Sprintf", "Sprintln"} /\ Live(call.recv)
           /\ len(H, logs[call.recv].meta) = 0) =>
          ret = RetStr(Plain(call)) /\ effects = <<>>
    /\ (call.op \in {"Print", "Printf", "Println"} /\ Live(call.recv)
           /\ len(H, logs[call.recv].meta) = 0) =>
          effects = <<EvWrite(logs[call.recv].out,
                              Header(logs[call.recv].logger.flags) \o Line(Plain(call)))>>

\* Print("test") on a logger without metadata, beside a store whose keys were all
\* deleted
C7_Witness ==
    /\ call.op = "Print" /\ Live(call.recv)
    /\ len(H, logs[call.recv].meta) = 0
    /\ call.args = <<StrV("test")>>
    /\ effects = <<EvWrite("w", "2009/01/23 01:23:23 test\n")>>
    /\ \E m \in MetaIds :
          Held(m) /\ ghost[m].deleted /\ metas[m].entries # 0 /\ len(H, m) = 0

---------------------------------------------------------------------------
(* Claims about deletion, under MetaSpec, and about Sprintln, under Spec *)

\* C11, as claimed: Sprintln on a logger with metadata returns the prefix, one
\* space, and the plain Sprintln formatting of the operands.
C11_AsClaimed ==
    (call.op = "Sprintln" /\ Live(call.recv) /\ len(H, logs[call.recv].meta) > 0) =>
        /\ effects = <<>>
        /\ ret.s = SpecPrefix(H, call.recv, ghost[logs[call.recv].meta].hist)
                      \o " " \o FmtSprintln(call.args)

\* C12, as claimed: in every state of every store, whatever set, del and copy
\* calls made it, the orders are 0..len-1, each once, in first-insertion order.
C12_AsClaimed ==
    \A m \in MetaIds :
        metas[m].live =>
            /\ DOMAIN entries(H, m) = Range(ghost[m].hist)
            /\ \A i \in 1..Len(ghost[m].hist) :
                  entries(H, m)[ghost[m].hist[i]].order = i - 1

\* C12, amended: the same of every store made by set and copy calls only, one
\* that no key was deleted from, nor from the store it was copied from.
C12_Dense ==
    \A m \in MetaIds :
        SetOnly(m) =>
            /\ DOMAIN entries(H, m) = Range(ghost[m].hist)
            /\ {entries(H, m)[k].order : k \in DOMAIN entries(H, m)} = 0..(len(H, m) - 1)
            /\ \A i \in 1..Len(ghost[m].hist) :
                  entries(H, m)[ghost[m].hist[i]].order = i - 1

\* a copy of a store of two keys, t set first, after an overwrite of t in the copy
C12_Witness ==
    \E m, n \in MetaIds :
        /\ SetOnly(m) /\ SetOnly(n) /\ ghost[n].from = m
        /\ ghost[n].hist = <<"t", "foo">>
        /\ call.op = "set" /\ call.recv = n /\ call.key = "t"
        /\ get(H, n, "t") # get(H, m, "t")

\* C13, as claimed: format of every store, whatever set and del calls made it,
\* returns a string; no walk of the map runs into an index out of range.
C13_AsClaimed ==
    /\ \A m \in MetaIds, x \in FormatArgs :
          metas[m].live => Fault \notin format(H, m, x[1], x[2])
    /\ call.op = "format" => effects = <<>>

\* C14, as claimed: the string format returns has "key=value" of every entry the
\* store holds, once each and nothing else between the delimiters, the keys in
\* the order they were inserted in (a key deleted and set again counts from its
\* new insertion), also after deletions.
C14_AsClaimed ==
    (call.op = "format" /\ effects = <<>> /\ len(H, call.recv) > 0) =>
        ret.s = Wrapped(call.f,
                        Rendered(entries(H, call.recv), ghost[call.recv].hist, call.delim))

\* C17: del of a key the store does not have changes nothing, a nil map stays
\* nil; del of a key it has removes that key and no other, get of it gives nil,
\* and every other entry keeps its value and its order.
C17_Step ==
    call'.op = "del" =>
        LET m == call'.recv
            k == call'.key
            old == entries(H, m)
            new == entries(H1, m)
        IN  /\ k \notin DOMAIN old => H1 = H
            /\ metas' = metas
            /\ DOMAIN new = DOMAIN old \ {k}
            /\ get(H1, m, k) = NilValue
            /\ \A x \in DOMAIN new : new[x] = old[x]
            /\ \A n \in MetaIds \ {m} : entries(H1, n) = entries(H, n)
C17_Del == [][C17_Step]_vars

\* del("foo") on a store of foo and t, set in that order: t is left at order 1
C17_Witness ==
    /\ call.op = "del" /\ call.key = "foo"
    /\ metas[call.recv].live
    /\ ghost[call.recv].hist = <<"t">>
    /\ entries(H, call.recv)["t"] = MetaEntry(IntV(7), 1)
    /\ get(H, call.recv, "foo") = NilValue

---------------------------------------------------------------------------
(* A caller that puts pointers into stores and writes through them *)

\* what is written through a pointer (new(int) points to 0)
CellVals == {7}

\* what a caller sees of a value it got: of a pointer, the int it points to
Pointee(cs, v) == IF v.t = "ptr" THEN IntV(cs[v.n].n) ELSE v

\* p := new(int); m.set(k, p)
MetaSetNew(m, k) ==
    /\ Idle
    /\ Held(m)
    /\ Free(cells, CellIds) # {}
    /\ \E c \in {Fresh(cells, CellIds)} :
          /\ \E h \in {set(H, m, k, PtrV(c))} :
                /\ logs' = h.logs
                /\ metas' = h.metas
                /\ maps' = h.maps
                /\ ghost' = h.ghost
          /\ call' = [NoCall EXCEPT !.op = "set", !.recv = m, !.key = k, !.val = PtrV(c)]
          /\ cells' = [cells EXCEPT ![c] = [live |-> TRUE, n |-> 0]]
    /\ ret' = NoRet
    /\ effects' = <<>>
    /\ UNCHANGED <<mutex, thr>>

\* *(m.get(k).(*int)) = x
CellStore(m, k, x) ==
    /\ Idle
    /\ Held(m)
    /\ get(H, m, k).t = "ptr"
    /\ call' = [NoCall EXCEPT !.op = "store", !.recv = m, !.key = k, !.val = IntV(x)]
    /\ cells' = [cells EXCEPT ![get(H, m, k).n].n = x]
    /\ ret' = NoRet
    /\ effects' = <<>>
    /\ UNCHANGED <<logs, metas, maps, ghost, mutex, thr>>

RefNext ==
    \/ MetaNew
    \/ \E m \in MetaIds, k \in Keys : MetaGet(m, k)
    \/ \E m \in MetaIds, k \in Keys : MetaSet(m, k, StrV("bar"))
    \/ \E m \in MetaIds, k \in Keys : MetaSetNew(m, k)
    \/ \E m \in MetaIds, k \in Keys : MetaDel(m, k)
    \/ \E m \in MetaIds : MetaCopy(m)
    \/ \E m \in MetaIds : MetaDrop(m)
    \/ \E m \in MetaIds, k \in Keys, x \in CellVals : CellStore(m, k, x)
    \/ Return

RefSpec == Init /\ [][RefNext]_vars

\* C18, as claimed: the copy shares nothing that can change with its source, so
\* a write through a pointer got from one store changes nothing that get on
\* another store shows.
C18_AsClaimed ==
    [][call'.op = "store" =>
          \A n \in MetaIds \ {call'.recv}, k \in Keys :
              metas[n].live =>
                  Pointee(cells', get(H1, n, k)) = Pointee(cells, get(H, n, k))]_vars

\* C18, amended: copy makes a new map and copies every entry into it, key, value
\* and order, the value as it is: the source is left as it was, a set or del on
\* one store changes no entry of another, and a pointer stored as a value is the
\* same pointer in both, so that a write through it shows through every store
\* that holds it and through no other entry.
C18_Step ==
    /\ call'.op = "copy" =>
          LET m == call'.recv
              n == ret'.ref
          IN  /\ n # m /\ ~metas[n].live /\ metas'[n].live
              /\ entries(H1, n) = entries(H, m)
              /\ entries(H1, m) = entries(H, m)
              /\ metas[m].entries = 0 => metas'[n].entries = 0
              /\ metas[m].entries # 0 =>
                    /\ metas'[n].entries \notin {0, metas[m].entries}
                    /\ ~maps[metas'[n].entries].live
              /\ cells' = cells
    /\ call'.op \in {"set", "del"} =>
          /\ \A n \in MetaIds \ {call'.recv} :
                (metas[n].live /\ metas'[n].live) => entries(H1, n) = entries(H, n)
          /\ \A c \in CellIds : cells[c].live => cells'[c] = cells[c]
    /\ call'.op = "store" =>
          LET p == get(H, call'.recv, call'.key)
          IN  /\ H1 = H
              /\ \A n \in MetaIds, k \in Keys :
                    metas[n].live =>
                        Pointee(cells', get(H1, n, k)) =
                            IF get(H, n, k) = p THEN call'.val
                            ELSE Pointee(cells, get(H, n, k))
C18_Copy == [][C18_Step]_vars

\* a write of 7 through the pointer a copy holds under foo, which the store it
\* was copied from holds too and now shows as 7
C18_Witness ==
    \E m, n \in MetaIds :
        /\ metas[m].live /\ metas[n].live /\ ghost[n].from = m
        /\ call.op = "store" /\ call.recv = n /\ call.key = "foo" /\ call.val = IntV(7)
        /\ get(H, n, "foo").t = "ptr"
        /\ get(H, m, "foo") = get(H, n, "foo")
        /\ metas[m].entries # metas[n].entries
        /\ Pointee(cells, get(H, m, "foo")) = IntV(7)

---------------------------------------------------------------------------
(* Threads that call get, set, del, format and copy on one store at the same *)
(* time.  A call is a walk through the method: the lock, the statements of   *)
(* the body one at a time, the deferred unlock.                              *)

MaxCalls == 2           \* calls a thread makes

\* the store the threads share
Shared == 1

\* the arguments of the format calls, those of Log.prefix
PrefixArgs == <<" ", "[%s]">>

\* the calls a thread makes
ThreadCalls ==
    {[op |-> "get", k |-> k, v |-> NilValue] : k \in Keys}
    \cup {[op |-> "set", k |-> k, v |-> v] : k \in Keys, v \in Values}
    \cup {[op |-> "del", k |-> k, v |-> NilValue] : k \in Keys}
    \cup {[op |-> "format", k |-> "", v |-> NilValue], [op |-> "copy", k |-> "", v |-> NilValue]}

\* every method as it would be if it took the lock shared
LockModeAllShared(op) == "RLock"

\* the first statement of each method: m.mutex.Lock() or m.mutex.RLock()
LockMode(op) == IF op \in {"set", "del"} THEN "Lock" ELSE "RLock"

\* the unlock as it would be if it were the last statement of the method and not
\* deferred: a fault leaves the method before it
UnlockOnReturnOnly(op, fault) == ~fault

\* the second statement: defer m.mutex.Unlock() or defer m.mutex.RUnlock(), which
\* runs however the method is left
Deferred(op, fault) == TRUE

\* the statement of the body the method starts with
Enter(op) ==
    CASE op = "get" -> "get_read"
      [] op = "set" -> "set_nil"
      [] op = "del" -> "del_delete"
      [] op = "format" -> "format_len"
      [] op = "copy" -> "copy_nil"

\* thread t is in the body of a method or at its deferred unlock: it holds the lock
InBody(t) == thr[t].pc \notin {"idle", "Lock", "LockWait", "RLock"}

Other == <<logs, call, ret, effects, cells>>

\* thread t goes to pc, its locals changed as in the record x
Goto(t, pc, x) == thr' = [thr EXCEPT ![t] = [x EXCEPT !.pc = pc]]

\* thread t calls c.op(c.k, c.v) on the shared store
Begin(t, c) ==
    /\ thr[t].pc = "idle"
    /\ thr[t].calls < MaxCalls
    /\ Goto(t, LockMode(c.op),
            [NoThread(thr[t].calls + 1) EXCEPT !.op = c.op, !.k = c.k, !.v = c.v])
    /\ UNCHANGED <<metas, maps, ghost, mutex>>
    /\ UNCHANGED Other

\* the history of the store when t gets the lock: a set of a key the store does
\* not have is the next insertion
Acquired(t) ==
    IF thr[t].op = "set" /\ thr[t].k \notin DOMAIN entries(H, Shared)
    THEN [ghost EXCEPT ![Shared] = GhostSet(ghost[Shared], thr[t].k)]
    ELSE ghost

\* m.mutex.Lock(), first half: t is the writer once no other thread is; from now
\* on no reader gets in
Lock(t) ==
    /\ thr[t].pc = "Lock"
    /\ mutex[Shared].w = 0
    /\ mutex' = [mutex EXCEPT ![Shared].w = t]
    /\ Goto(t, "LockWait", thr[t])
    /\ UNCHANGED <<metas, maps, ghost>>
    /\ UNCHANGED Other

\* m.mutex.Lock(), second half: t waits for the readers that hold the lock to go
LockWait(t) ==
    /\ thr[t].pc = "LockWait"
    /\ mutex[Shared].r = {}
    /\ Goto(t, Enter(thr[t].op), thr[t])
    /\ ghost' = Acquired(t)
    /\ UNCHANGED <<metas, maps, mutex>>
    /\ UNCHANGED Other

\* m.mutex.RLock(): t waits while a writer has the lock or waits for it
RLock(t) ==
    /\ thr[t].pc = "RLock"
    /\ mutex[Shared].w = 0
    /\ mutex' = [mutex EXCEPT ![Shared].r = @ \cup {t}]
    /\ Goto(t, Enter(thr[t].op), thr[t])
    /\ ghost' = Acquired(t)
    /\ UNCHANGED <<metas, maps>>
    /\ UNCHANGED Other

\* return m.entries[k].value
GetRead(t) ==
    /\ thr[t].pc = "get_read"
    /\ Goto(t, "unlock", [thr[t] EXCEPT !.v = get(H, Shared, thr[t].k)])
    /\ UNCHANGED <<metas, maps, ghost, mutex>>
    /\ UNCHANGED Other

\* if m.entries == nil { m.entries = make(map[string]MetaEntry) }
SetNil(t) ==
    /\ thr[t].pc = "set_nil"
    /\ IF metas[Shared].entries = 0
       THEN \E mp \in {FreshFor(maps, MapIds, Shared)} :
               /\ metas' = [metas EXCEPT ![Shared].entries = mp]
               /\ maps' = [maps EXCEPT ![mp] = [live |-> TRUE, m |-> EmptyMap]]
       ELSE UNCHANGED <<metas, maps>>
    /\ Goto(t, "set_lookup", thr[t])
    /\ UNCHANGED <<ghost, mutex>>
    /\ UNCHANGED Other

\* vi, ok := m.entries[k], and the order the entry is to have: vi.order if ok,
\* len(m.entries) if not, read before the map is written
SetLookup(t) ==
    /\ thr[t].pc = "set_lookup"
    /\ Goto(t, "set_store",
            [thr[t] EXCEPT !.ord = IF thr[t].k \in DOMAIN entries(H, Shared)
                                   THEN entries(H, Shared)[thr[t].k].order
                                   ELSE len(H, Shared)])
    /\ UNCHANGED <<metas, maps, ghost, mutex>>
    /\ UNCHANGED Other

\* m.entries[k] = MetaEntry{v, order}
SetStore(t) ==
    /\ thr[t].pc = "set_store"
    /\ LET old == entries(H, Shared)
       IN  maps' = [maps EXCEPT ![metas[Shared].entries].m =
                       [x \in DOMAIN old \cup {thr[t].k} |->
                           IF x = thr[t].k THEN MetaEntry(thr[t].v, thr[t].ord)
                           ELSE old[x]]]
    /\ Goto(t, "unlock", thr[t])
    /\ UNCHANGED <<metas, ghost, mutex>>
    /\ UNCHANGED Other

\* delete(m.entries, k)
DelDelete(t) ==
    /\ thr[t].pc = "del_delete"
    /\ \E h \in {del(H, Shared, thr[t].k)} :
          /\ maps' = h.maps
          /\ ghost' = h.ghost
    /\ Goto(t, "unlock", thr[t])
    /\ UNCHANGED <<metas, mutex>>
    /\ UNCHANGED Other

\* if len(m.entries) == 0 { return "" }; pts := make([]string, len(m.entries))
FormatLen(t) ==
    /\ thr[t].pc = "format_len"
    /\ IF len(H, Shared) = 0
       THEN Goto(t, "unlock", thr[t])
       ELSE Goto(t, "format_range",
                 [thr[t] EXCEPT !.pts = [i \in 1..len(H, Shared) |-> ""],
                                !.todo = DOMAIN entries(H, Shared)])
    /\ UNCHANGED <<metas, maps, ghost, mutex>>
    /\ UNCHANGED Other

\* one turn of the loop, at a key the map yields: pts[vi.order] = "k=v", or the
\* index is out of range and the method is left by a panic
FormatRange(t) ==
    /\ thr[t].pc = "format_range"
    /\ \E k \in thr[t].todo \cap DOMAIN entries(H, Shared) :
          LET vi == entries(H, Shared)[k]
          IN  IF vi.order >= Len(thr[t].pts)
              THEN Goto(t, "unlock", [thr[t] EXCEPT !.fault = TRUE, !.todo = {}])
              ELSE Goto(t, "format_range",
                        [thr[t] EXCEPT
                            !.pts[vi.order + 1] = FmtSprintf("%s=%+v", <<StrV(k), vi.value>>),
                            !.todo = @ \ {k}])
    /\ UNCHANGED <<metas, maps, ghost, mutex>>
    /\ UNCHANGED Other

\* the loop is over: s := strings.Join(pts, delim); return fmt.Sprintf(format, s)
FormatJoin(t) ==
    /\ thr[t].pc = "format_range"
    /\ thr[t].todo \cap DOMAIN entries(H, Shared) = {}
    /\ Goto(t, "unlock",
            [thr[t] EXCEPT !.s = FmtSprintf(PrefixArgs[2],
                                            <<StrV(StringsJoin(thr[t].pts, PrefixArgs[1]))>>),
                           !.pts = <<>>, !.todo = {}])
    /\ UNCHANGED <<metas, maps, ghost, mutex>>
    /\ UNCHANGED Other

\* var entries map[string]MetaEntry; if m.entries != nil { entries = make(...) }
CopyNil(t) ==
    /\ thr[t].pc = "copy_nil"
    /\ IF metas[Shared].entries = 0
       THEN Goto(t, "unlock", thr[t])
       ELSE Goto(t, "copy_range",
                 [thr[t] EXCEPT !.isnil = FALSE, !.todo = DOMAIN entries(H, Shared)])
    /\ UNCHANGED <<metas, maps, ghost, mutex>>
    /\ UNCHANGED Other

\* one turn of the loop: entries[k] = v
CopyRange(t) ==
    /\ thr[t].pc = "copy_range"
    /\ \E k \in thr[t].todo \cap DOMAIN entries(H, Shared) :
          Goto(t, "copy_range",
               [thr[t] EXCEPT
                   !.ents = [x \in DOMAIN thr[t].ents \cup {k} |->
                                IF x = k THEN entries(H, Shared)[k] ELSE thr[t].ents[x]],
                   !.todo = @ \ {k}])
    /\ UNCHANGED <<metas, maps, ghost, mutex>>
    /\ UNCHANGED Other

\* the loop is over: return &Meta{entries, sync.RWMutex{}}, which t alone holds
CopyNew(t) ==
    /\ thr[t].pc = "copy_range"
    /\ thr[t].todo \cap DOMAIN entries(H, Shared) = {}
    /\ Goto(t, "unlock", [thr[t] EXCEPT !.todo = {}])
    /\ UNCHANGED <<metas, maps, ghost, mutex>>
    /\ UNCHANGED Other

\* the lock without thread t
Released(mx, t) ==
    [w |-> IF mx.w = t THEN 0 ELSE mx.w, r |-> mx.r \ {t}]

\* the deferred Unlock or RUnlock runs and the method is left, by its return or,
\* after a fault, by the panic, which the caller recovers from
Unlock(t) ==
    /\ thr[t].pc = "unlock"
    /\ mutex' = IF Deferred(thr[t].op, thr[t].fault)
                THEN [mutex EXCEPT ![Shared] = Released(mutex[Shared], t)]
                ELSE mutex
    /\ Goto(t, "idle", NoThread(thr[t].calls))
    /\ UNCHANGED <<metas, maps, ghost>>
    /\ UNCHANGED Other

Step(t) ==
    \/ \E c \in ThreadCalls : Begin(t, c)
    \/ Lock(t)
    \/ LockWait(t)
    \/ RLock(t)
    \/ GetRead(t)
    \/ SetNil(t)
    \/ SetLookup(t)
    \/ SetStore(t)
    \/ DelDelete(t)
    \/ FormatLen(t)
    \/ FormatRange(t)
    \/ FormatJoin(t)
    \/ CopyNil(t)
    \/ CopyRange(t)
    \/ CopyNew(t)
    \/ Unlock(t)

\* the stores the threads are handed: m := &Meta{} as it is; after
\* m.set("foo", "bar") and m.set("t", 7); and after m.del("foo") as well
Built ==
    LET h0 == [logs |-> [i \in LogIds |-> NoLog],
               metas |-> [i \in MetaIds |->
                            IF i = Shared THEN [live |-> TRUE, entries |-> 0] ELSE NoMeta],
               maps |-> [i \in MapIds |-> NoMap],
               ghost |-> [i \in MetaIds |->
                            IF i = Shared THEN [NoGhost EXCEPT !.held = TRUE] ELSE NoGhost]]
        h1 == set(set(h0, Shared, "foo", StrV("bar")), Shared, "t", IntV(7))
    IN  {h0, h1, del(h1, Shared, "foo")}

ThreadInit ==
    /\ \E h \in Built :
          /\ logs = h.logs
          /\ metas = h.metas
          /\ maps = h.maps
          /\ ghost = h.ghost
    /\ call = NoCall
    /\ ret = NoRet
    /\ effects = <<>>
    /\ cells = [c \in CellIds |-> NoCell]
    /\ mutex = [i \in MetaIds |-> NoMutex]
    /\ thr = [t \in Threads |-> NoThread(0)]

ThreadNext == \E t \in Threads : Step(t)

ThreadSpec == ThreadInit /\ [][ThreadNext]_vars

\* the same, every thread going on whenever it can
FairSpec == ThreadSpec /\ \A t \in Threads : WF_vars(Step(t))

---------------------------------------------------------------------------
(* Claims about the lock, under ThreadSpec and FairSpec *)

\* thread t is in a set, past the lock and before its write
C15_Inserting(t, k) ==
    thr[t].op = "set" /\ thr[t].k = k /\ thr[t].pc \in {"set_nil", "set_lookup", "set_store"}

C16_Serialized ==
    /\ \A t, u \in Threads :
          (t # u /\ InBody(t) /\ thr[t].op \in {"set", "del"}) => ~InBody(u)
    /\ \A t \in Threads :
          \A k \in DOMAIN thr[t].ents :
              k \in DOMAIN entries(H, Shared) /\ thr[t].ents[k] = entries(H, Shared)[k]
    /\ \A t \in Threads :
          thr[t].pc = "unlock" =>
              /\ thr[t].op = "get" => thr[t].v = get(H, Shared, thr[t].k)
              /\ thr[t].op = "copy" =>
                    /\ thr[t].isnil = (metas[Shared].entries = 0)
                    /\ thr[t].ents = entries(H, Shared)
              /\ thr[t].op = "format" =>
                    (IF thr[t].fault THEN Fault ELSE Ok(thr[t].s))
                        \in format(H, Shared, PrefixArgs[1], PrefixArgs[2])

\* a copy that has both entries and is about to unlock, while a del has taken the
\* writer's place and waits for it
C16_Witness ==
    \E t, u \in Threads :
        /\ thr[t].op = "copy" /\ thr[t].pc = "unlock"
        /\ DOMAIN thr[t].ents = {"foo", "t"}
        /\ thr[u].op = "del" /\ thr[u].pc = "LockWait"
        /\ mutex[Shared] = [w |-> u, r |-> {t}]

\* C19: a thread that is to take the lock does not hold it; and, the threads
\* going on whenever they can, every call comes to its end with the lock let go
\* by the thread that made it, also a format that faults, and the lock does not
\* stay held.
C19_Returns ==
    /\ [](\A t \in Threads :
            thr[t].pc \in {"Lock", "RLock"} =>
                mutex[Shared].w # t /\ t \notin mutex[Shared].r)
    /\ \A t \in Threads :
          (thr[t].pc # "idle") ~>
              (thr[t].pc = "idle" /\ mutex[Shared].w # t /\ t \notin mutex[Shared].r)
    /\ (mutex[Shared] # NoMutex) ~> (mutex[Shared] = NoMutex)

\* a format that has faulted and still holds the lock, while a set waits for it
C19_Witness ==
    \E t, u \in Threads :
        /\ thr[t].op = "format" /\ thr[t].pc = "unlock" /\ thr[t].fault
        /\ t \in mutex[Shared].r
        /\ thr[u].op = "set" /\ thr[u].pc = "LockWait"

====
